---- MODULE Spec2Model ----
(***************************************************************************)
(* A model of the size and trait assertion macros of static_assertions     *)
(* (src/src/assert_size.rs, src/src/assert_trait.rs).                       *)
(*                                                                         *)
(* A translation unit is a list of macro invocations.  The compiler first  *)
(* expands every invocation (one action per macro_rules! definition) into  *)
(* proof obligations, then type-checks every obligation, then reports the  *)
(* unit as accepted or rejected.  An accepted unit is then run: the        *)
(* statements that the expression forms expand to are executed.            *)
(*                                                                         *)
(* Every operand (a type, an expression, a trait path) is a sequence of    *)
(* strings: <<"u8">>, <<"&", "u8">>, <<"var", "x">>, <<"Copy">>.            *)
(***************************************************************************)
EXTENDS Integers, Sequences, FiniteSets, TLC

VARIABLES
    unit,      \* the invocations as written, in source order
    work,      \* invocations not yet expanded, keyed by <<source index, position>>
    obls,      \* proof obligations generated so far, keyed the same way
    verdict,   \* obligations the type checker has decided: key -> well-formed?
    checks,    \* how many times each obligation has been type-checked
    notices,   \* source indices that carry a deprecation notice
    stmts,     \* closures left in statement position by the expression forms
    result,    \* "pending", "ok" (unit accepted) or "error" (unit rejected)
    ran,       \* statements executed so far when the accepted program runs
    moved,     \* variables whose value has been moved out of
    effects,   \* how many operand expressions have been evaluated
    reinterpreted \* how many times the ptr::read/transmute/ptr::write body ran

vars == <<unit, work, obls, verdict, checks, notices, stmts, result, ran, moved,
          effects, reinterpreted>>

\* ------------------------------------------------------------------ bounds

\* Longest operand list of one invocation (first operand included).
MaxOperands == 3

\* Longest translation unit of the specification Spec.
MaxUnit == 2

\* ------------------------------------------------------------------- types

TypeError == <<"!">>

\* The types the doc tests use.  Byte is `struct Byte(u8)`, neither Copy nor Clone.
BaseTypes == {<<"u8">>, <<"Byte">>, <<"u32">>, <<"[u8; 4]">>, <<"(u16, u16)">>,
              <<"[u8; 16]">>}

RefTo(t) == <<"&">> \o t

IsRef(t) == Head(t) = "&"

\* ptr::read::<T>(src: *const T): what the argument must point to.
Pointee(t) == IF IsRef(t) THEN Tail(t) ELSE TypeError

\* mem::size_of on a 64-bit target.
SizeOf(t) ==
    CASE IsRef(t)              -> 8
      [] t = <<"u8">>          -> 1
      [] t = <<"Byte">>        -> 1
      [] t = <<"u32">>         -> 4
      [] t = <<"[u8; 4]">>     -> 4
      [] t = <<"(u16, u16)">>  -> 4
      [] t = <<"[u8; 16]">>    -> 16
      [] t = <<"[u8; 1]">>     -> 1
      [] t = <<"[Byte; 1]">>   -> 1

IsCopy(t) == t \notin {<<"Byte">>, <<"[Byte; 1]">>}

\* ------------------------------------------------------------- expressions

\* Variables in scope at the assertion, with their declared types.
Variables == {"x", "y", "BYTES", "TABLE"}

VarType(v) ==
    CASE v = "x"     -> <<"u8">>
      [] v = "y"     -> <<"Byte">>
      [] v = "BYTES" -> <<"&", "[u8; 4]">>
      [] v = "TABLE" -> <<"&", "[u8; 16]">>

\* Operand expressions: a variable, a literal, a call with a side effect, and
\* the array expression `[y]`, which uses y by value.
Exprs == {<<"var", "x">>, <<"var", "y">>, <<"var", "BYTES">>, <<"var", "TABLE">>,
          <<"lit", "0u8">>, <<"lit", "0u32">>, <<"call", "next_bytes">>,
          <<"array", "y">>}

RECURSIVE TypeOf(_)
TypeOf(e) ==
    CASE e[1] = "&"    -> RefTo(TypeOf(Tail(e)))
      [] e[1] = "var"  -> VarType(e[2])
      [] e[1] = "lit"  -> IF e[2] = "0u8" THEN <<"u8">> ELSE <<"u32">>
      [] e[1] = "call" -> <<"&", "[u8; 4]">>
      [] e[1] = "array" -> IF e[2] = "y" THEN <<"[Byte; 1]">> ELSE <<"[u8; 1]">>

\* Evaluating the expression runs a call.
RECURSIVE HasEffect(_)
HasEffect(e) ==
    CASE e[1] = "&"    -> HasEffect(Tail(e))
      [] e[1] = "call" -> TRUE
      [] OTHER         -> FALSE

\* The variables an expression names.
RECURSIVE Mentions(_)
Mentions(e) ==
    CASE e[1] = "&"                -> Mentions(Tail(e))
      [] e[1] \in {"var", "array"} -> {e[2]}
      [] OTHER                     -> {}

\* The variables an expression uses by value and that are not Copy: evaluating
\* the expression moves them, and a closure whose body holds it captures them
\* by value.  `&v` borrows the place v and moves nothing.
RECURSIVE MovesOf(_)
MovesOf(e) ==
    CASE e[1] = "&" /\ e[2] = "var" -> {}
      [] e[1] = "&"                 -> MovesOf(Tail(e))
      [] e[1] \in {"var", "array"}  -> IF IsCopy(VarType(e[2])) THEN {} ELSE {e[2]}
      [] OTHER                      -> {}

\* ------------------------------------------------------- helper notation

EmptyFn == [k \in {} |-> 0]

Drop(f, k) == [j \in DOMAIN f \ {k} |-> f[j]]

\* f extended by g.
Merge(f, g) ==
    [j \in DOMAIN f \cup DOMAIN g |-> IF j \in DOMAIN f THEN f[j] ELSE g[j]]

Single(k, v) == [j \in {k} |-> v]

\* A macro invocation `macro!(head, args...)` or `macro!(head: args...)`.
Invocation(m, h, a) == [macro |-> m, head |-> h, args |-> a]

\* The expansion of source index s places one entry per repetition.
Keyed(s, f) == [k \in {<<s, i>> : i \in DOMAIN f} |-> f[k[2]]]

\* -------------------------------------------------- assert_size.rs: macros

\* `let _ = mem::transmute::<from, to>;` is well-typed iff the sizes agree.
Transmute(from, to) == [kind |-> "transmute", from |-> from, to |-> to]

\* A mutant: the obligation is generated for the first remaining type only.
assert_size_eq_first_only(x, xs) ==
    [i \in {1} |-> Transmute(x, xs[i])]

\* A mutant: the remaining types are compared with one another, never with
\* the first.
assert_size_eq_rest_only(x, xs) ==
    [i \in 1..Len(xs) |-> Transmute(xs[1], xs[i])]

\* A mutant: each operand is compared with its predecessor.
assert_size_eq_chain(x, xs) ==
    [i \in 1..Len(xs) |-> Transmute((<<x>> \o xs)[i], xs[i])]

\* assert_size_eq!($x:ty, $($xs:ty),+): one transmute::<$x, $xs> per $xs.
assert_size_eq(x, xs) ==
    [i \in 1..Len(xs) |-> Transmute(x, xs[i])]

\* A mutant: the pointers themselves are transmuted, not what they point to.
assert_size_eq_ptr_no_read(x, xs) ==
    [i \in 1..Len(xs) |-> Transmute(TypeOf(xs[i]), TypeOf(x))]

\* assert_size_eq_ptr!($x:expr, $($xs:expr),+): `copy` has the type $x points
\* to, and each ptr::read($xs) is transmuted to that type.
assert_size_eq_ptr(x, xs) ==
    [i \in 1..Len(xs) |-> Transmute(Pointee(TypeOf(xs[i])), Pointee(TypeOf(x)))]

\* The statement assert_size_eq_ptr! leaves behind: `let _ = || unsafe {...};`,
\* a closure that is not `move`, is never called, and reads every operand.
assert_size_eq_ptr_closure(x, xs) ==
    [move |-> FALSE, called |-> FALSE, reads |-> <<x>> \o xs]

\* A mutant: the operands are forwarded as they are.
assert_size_eq_val_no_ref(x, xs) ==
    Invocation("assert_size_eq_ptr", x, xs)

\* assert_size_eq_val!($x, $($xs),+) => assert_size_eq_ptr!(&$x, $(&$xs),+)
assert_size_eq_val(x, xs) ==
    Invocation("assert_size_eq_ptr", <<"&">> \o x,
               [i \in 1..Len(xs) |-> <<"&">> \o xs[i]])

\* assert_eq_size!($($t:tt)*) => assert_size_eq!($($t)*)
assert_eq_size(x, xs) == Invocation("assert_size_eq", x, xs)

\* assert_eq_size_ptr!($($t:tt)*) => assert_size_eq_ptr!($($t)*)
assert_eq_size_ptr(x, xs) == Invocation("assert_size_eq_ptr", x, xs)

\* A mutant: the alias forwards to the pointer form.
assert_eq_size_val_to_ptr(x, xs) == Invocation("assert_size_eq_ptr", x, xs)

\* assert_eq_size_val!($($t:tt)*) => assert_size_eq_val!($($t)*)
assert_eq_size_val(x, xs) == Invocation("assert_size_eq_val", x, xs)

\* ------------------------------------------------- assert_trait.rs: macros

\* The traits of the doc tests: `trait A: Copy {}`, `trait B: Copy {}`,
\* `trait C {}`, and the standard library's Copy: Clone, Ord: Eq + PartialOrd,
\* Eq: PartialEq, PartialOrd: PartialEq.
Traits == {"Copy", "Clone", "Ord", "PartialOrd", "Eq", "PartialEq", "A", "B", "C"}

DirectSupertraits(t) ==
    CASE t = "Copy"       -> {"Clone"}
      [] t = "Ord"        -> {"Eq", "PartialOrd"}
      [] t = "Eq"         -> {"PartialEq"}
      [] t = "PartialOrd" -> {"PartialEq"}
      [] t = "A"          -> {"Copy"}
      [] t = "B"          -> {"Copy"}
      [] OTHER            -> {}

\* What the compiler knows of a type parameter `T: t`: the bound and
\* everything it requires, transitively.
RECURSIVE Elaborate(_)
Elaborate(S) ==
    LET more == S \cup UNION {DirectSupertraits(t) : t \in S}
    IN  IF more = S THEN S ELSE Elaborate(more)

\* assert_impl!(for(T: bound) T: (t1) op (t2) op ...), op one of & and |.
AssertImpl(bound, op, traits) ==
    [kind |-> "impl", bound |-> bound, op |-> op, traits |-> traits]

\* A mutant: the traits are joined with | instead of &.
assert_trait_sub_all_or(sub, supers) == AssertImpl(sub, "|", supers)

\* assert_trait_sub_all!($sub: $($super),+)
\*   => assert_impl!(for(T: $sub) T: $( ($super) )&+)
assert_trait_sub_all(sub, supers) == AssertImpl(sub, "&", supers)

\* A mutant: only the first listed trait gets its obligation.
assert_trait_super_all_first_only(super, subs) ==
    [i \in {1} |-> Invocation("assert_trait_sub_all", subs[i], <<super>>)]

\* assert_trait_super_all!($super: $($sub),+)
\*   => $(assert_trait_sub_all!($sub: $super);)+
assert_trait_super_all(super, subs) ==
    [i \in 1..Len(subs) |-> Invocation("assert_trait_sub_all", subs[i], <<super>>)]

\* A mutant: the traits are joined with & instead of |.
assert_trait_sub_any_and(sub, supers) == AssertImpl(sub, "&", supers)

\* assert_trait_sub_any!($sub: $($super),+)
\*   => assert_impl!(for(T: $sub) T: $( ($super) )|+)
assert_trait_sub_any(sub, supers) == AssertImpl(sub, "|", supers)

\* ------------------------------------------------------- the type checker

\* mem::transmute::<from, to> type-checks iff both types are known and have
\* the same size.
TransmuteOk(o) ==
    /\ o.from # TypeError
    /\ o.to # TypeError
    /\ SizeOf(o.from) = SizeOf(o.to)

\* assert_impl!(for(T: bound) T: ...) is checked once, for the type parameter:
\* `T: t` holds iff t is among what the bound requires.
AssertImplOk(o) ==
    LET known == Elaborate({o.bound[1]})
    IN  IF o.op = "&"
        THEN \A i \in DOMAIN o.traits : o.traits[i][1] \in known
        ELSE \E i \in DOMAIN o.traits : o.traits[i][1] \in known

\* Whether the compiler accepts one proof obligation.
WellFormed(o) ==
    IF o.kind = "transmute" THEN TransmuteOk(o) ELSE AssertImplOk(o)

\* ------------------------------------------------------- macro expansion

TopKey(s) == <<s, 1>>

Rewrite(k, inv) ==
    /\ work' = [work EXCEPT ![k] = inv]
    /\ UNCHANGED <<unit, obls, verdict, checks, stmts, result, ran, moved,
                   effects, reinterpreted>>

Expand_assert_eq_size ==
    \E k \in DOMAIN work :
        /\ work[k].macro = "assert_eq_size"
        /\ notices' = notices \cup {k[1]}
        /\ Rewrite(k, assert_eq_size(work[k].head, work[k].args))

Expand_assert_eq_size_ptr ==
    \E k \in DOMAIN work :
        /\ work[k].macro = "assert_eq_size_ptr"
        /\ notices' = notices \cup {k[1]}
        /\ Rewrite(k, assert_eq_size_ptr(work[k].head, work[k].args))

Expand_assert_eq_size_val ==
    \E k \in DOMAIN work :
        /\ work[k].macro = "assert_eq_size_val"
        /\ notices' = notices \cup {k[1]}
        /\ Rewrite(k, assert_eq_size_val(work[k].head, work[k].args))

Expand_assert_size_eq_val ==
    \E k \in DOMAIN work :
        /\ work[k].macro = "assert_size_eq_val"
        /\ Rewrite(k, assert_size_eq_val(work[k].head, work[k].args))
        /\ UNCHANGED notices

\* The expansion is a `const _: fn() = || { ... };` item: nothing is left to run.
Expand_assert_size_eq ==
    \E k \in DOMAIN work :
        /\ work[k].macro = "assert_size_eq"
        /\ work' = Drop(work, k)
        /\ obls' = Merge(obls, Keyed(k[1], assert_size_eq(work[k].head, work[k].args)))
        /\ UNCHANGED <<unit, verdict, checks, notices, stmts, result, ran, moved,
                       effects, reinterpreted>>

\* The expansion is a `let _ = || unsafe { ... };` statement of the enclosing body.
Expand_assert_size_eq_ptr ==
    \E k \in DOMAIN work :
        /\ work[k].macro = "assert_size_eq_ptr"
        /\ work' = Drop(work, k)
        /\ obls' = Merge(obls,
               Keyed(k[1], assert_size_eq_ptr(work[k].head, work[k].args)))
        /\ stmts' = Merge(stmts,
               Single(k[1], assert_size_eq_ptr_closure(work[k].head, work[k].args)))
        /\ UNCHANGED <<unit, verdict, checks, notices, result, ran, moved,
                       effects, reinterpreted>>

Expand_assert_trait_sub_all ==
    \E k \in DOMAIN work :
        /\ work[k].macro = "assert_trait_sub_all"
        /\ work' = Drop(work, k)
        /\ obls' = Merge(obls,
               Single(k, assert_trait_sub_all(work[k].head, work[k].args)))
        /\ UNCHANGED <<unit, verdict, checks, notices, stmts, result, ran, moved,
                       effects, reinterpreted>>

Expand_assert_trait_super_all ==
    \E k \in DOMAIN work :
        /\ work[k].macro = "assert_trait_super_all"
        /\ work' = Merge(Drop(work, k),
               Keyed(k[1], assert_trait_super_all(work[k].head, work[k].args)))
        /\ UNCHANGED <<unit, obls, verdict, checks, notices, stmts, result, ran,
                       moved, effects, reinterpreted>>

Expand_assert_trait_sub_any ==
    \E k \in DOMAIN work :
        /\ work[k].macro = "assert_trait_sub_any"
        /\ work' = Drop(work, k)
        /\ obls' = Merge(obls,
               Single(k, assert_trait_sub_any(work[k].head, work[k].args)))
        /\ UNCHANGED <<unit, verdict, checks, notices, stmts, result, ran, moved,
                       effects, reinterpreted>>

\* ------------------------------------------------ type checking and running

\* Type checking follows macro expansion and visits every generated body.
Typecheck ==
    \E k \in DOMAIN obls :
        /\ DOMAIN work = {}
        /\ k \notin DOMAIN verdict
        /\ verdict' = Merge(verdict, Single(k, WellFormed(obls[k])))
        /\ checks' = Merge(Single(k, IF k \in DOMAIN checks THEN checks[k] + 1 ELSE 1),
                         checks)
        /\ UNCHANGED <<unit, work, obls, notices, stmts, result, ran, moved,
                       effects, reinterpreted>>

\* Any ill-formed obligation is a hard error of the whole unit.
Report ==
    /\ result = "pending"
    /\ DOMAIN work = {}
    /\ DOMAIN verdict = DOMAIN obls
    /\ result' = IF \A k \in DOMAIN verdict : verdict[k] THEN "ok" ELSE "error"
    /\ UNCHANGED <<unit, work, obls, verdict, checks, notices, stmts, ran, moved,
                   effects, reinterpreted>>

\* The variables a closure takes ownership of when it is created.
MovedInto(c) ==
    UNION {IF c.move
           THEN {v \in Mentions(c.reads[i]) : ~IsCopy(VarType(v))}
           ELSE MovesOf(c.reads[i])
           : i \in DOMAIN c.reads}

EffectsOf(c) == Cardinality({i \in DOMAIN c.reads : HasEffect(c.reads[i])})

\* The accepted program runs its statements in order.  `let _ = <closure>;`
\* creates the closure and drops it; its body runs only if it is called.
Run ==
    \E s \in DOMAIN stmts \ ran :
        /\ result = "ok"
        /\ \A r \in DOMAIN stmts \ ran : s <= r
        /\ ran' = ran \cup {s}
        /\ moved' = moved \cup MovedInto(stmts[s])
        /\ effects' = IF stmts[s].called THEN effects + EffectsOf(stmts[s])
                      ELSE effects
        /\ reinterpreted' = IF stmts[s].called
                            THEN reinterpreted + Len(stmts[s].reads) - 1
                            ELSE reinterpreted
        /\ UNCHANGED <<unit, work, obls, verdict, checks, notices, stmts, result>>

\* ------------------------------------------------------------ the inputs

OperandLists(S) ==
    UNION {[1..n -> S] : n \in 2..MaxOperands}

SizeTypeMacros == {"assert_size_eq", "assert_eq_size"}

SizePtrMacros == {"assert_size_eq_ptr", "assert_eq_size_ptr"}

SizeValMacros == {"assert_size_eq_val", "assert_eq_size_val"}

TraitMacros == {"assert_trait_sub_all", "assert_trait_super_all",
                "assert_trait_sub_any"}

\* An operand list that is valid where it is written: no operand names a
\* variable that an earlier operand of the list has moved.
ValidOperands(l) ==
    \A i, j \in DOMAIN l : i < j => MovesOf(l[i]) \cap Mentions(l[j]) = {}

\* The value form uses each operand as `&operand`.
Borrowed(l) == [i \in DOMAIN l |-> <<"&">> \o l[i]]

SizeAssertions ==
    {Invocation(m, Head(l), Tail(l)) :
        m \in SizeTypeMacros, l \in OperandLists(BaseTypes)}
    \cup
    {Invocation(m, Head(l), Tail(l)) :
        m \in SizePtrMacros, l \in {v \in OperandLists(Exprs) : ValidOperands(v)}}
    \cup
    {Invocation(m, Head(l), Tail(l)) :
        m \in SizeValMacros,
        l \in {v \in OperandLists(Exprs) : ValidOperands(Borrowed(v))}}

TraitAssertions ==
    {Invocation(m, Head(l), Tail(l)) :
        m \in TraitMacros, l \in OperandLists({<<t>> : t \in Traits})}

\* The invocations of the doc tests, each macro with one that compiles and
\* one marked compile_fail.
DocAssertions ==
    { Invocation("assert_size_eq", <<"[u8; 4]">>, << <<"(u16, u16)">>, <<"u32">> >>),
      Invocation("assert_size_eq", <<"u32">>, << <<"u8">> >>),
      Invocation("assert_eq_size", <<"u32">>, << <<"[u8; 4]">>, <<"u8">> >>),
      Invocation("assert_size_eq_ptr", <<"var", "BYTES">>,
                 << <<"call", "next_bytes">> >>),
      Invocation("assert_size_eq_ptr", <<"var", "BYTES">>, << <<"var", "TABLE">> >>),
      Invocation("assert_eq_size_ptr", <<"var", "TABLE">>, << <<"var", "TABLE">> >>),
      Invocation("assert_size_eq_val", <<"var", "x">>,
                 << <<"var", "y">>, <<"lit", "0u8">> >>),
      Invocation("assert_size_eq_val", <<"lit", "0u8">>, << <<"lit", "0u32">> >>),
      Invocation("assert_eq_size_val", <<"var", "y">>, << <<"var", "x">> >>),
      Invocation("assert_trait_sub_all", <<"Ord">>,
                 << <<"PartialEq">>, <<"Eq">>, <<"PartialOrd">> >>),
      Invocation("assert_trait_sub_all", <<"PartialOrd">>, << <<"Eq">> >>),
      Invocation("assert_trait_super_all", <<"Copy">>, << <<"A">>, <<"B">> >>),
      Invocation("assert_trait_super_all", <<"Copy">>,
                 << <<"A">>, <<"B">>, <<"C">> >>),
      Invocation("assert_trait_sub_any", <<"Ord">>, << <<"Eq">>, <<"Clone">> >>),
      Invocation("assert_trait_sub_any", <<"PartialOrd">>,
                 << <<"Eq">>, <<"Clone">> >>) }

Units == UNION {[1..n -> DocAssertions] : n \in 1..MaxUnit}

\* --------------------------------------------------------- specifications

InitWith(u) ==
    /\ unit = u
    /\ work = [k \in {TopKey(s) : s \in DOMAIN u} |-> u[k[1]]]
    /\ obls = EmptyFn
    /\ verdict = EmptyFn
    /\ checks = EmptyFn
    /\ notices = {}
    /\ stmts = EmptyFn
    /\ result = "pending"
    /\ ran = {}
    /\ moved = {}
    /\ effects = 0
    /\ reinterpreted = 0

\* A translation unit of up to MaxUnit assertions of any of the macros.
Init == \E u \in Units : InitWith(u)

Next ==
    \/ Expand_assert_eq_size
    \/ Expand_assert_eq_size_ptr
    \/ Expand_assert_eq_size_val
    \/ Expand_assert_size_eq_val
    \/ Expand_assert_size_eq
    \/ Expand_assert_size_eq_ptr
    \/ Expand_assert_trait_sub_all
    \/ Expand_assert_trait_super_all
    \/ Expand_assert_trait_sub_any
    \/ Typecheck
    \/ Report
    \/ Run

Spec == Init /\ [][Next]_vars

\* One size assertion over every operand list up to MaxOperands.
InitSize == \E a \in SizeAssertions : InitWith(<<a>>)

NextSize ==
    \/ Expand_assert_eq_size
    \/ Expand_assert_eq_size_ptr
    \/ Expand_assert_eq_size_val
    \/ Expand_assert_size_eq_val
    \/ Expand_assert_size_eq
    \/ Expand_assert_size_eq_ptr
    \/ Typecheck
    \/ Report
    \/ Run

SpecSize == InitSize /\ [][NextSize]_vars

\* One trait assertion over every trait list up to MaxOperands.
InitTrait == \E a \in TraitAssertions : InitWith(<<a>>)

NextTrait ==
    \/ Expand_assert_trait_sub_all
    \/ Expand_assert_trait_super_all
    \/ Expand_assert_trait_sub_any
    \/ Typecheck
    \/ Report

SpecTrait == InitTrait /\ [][NextTrait]_vars

\* ------------------------------------------------- what the claims speak of

Reported == result # "pending"

Expanded == DOMAIN work = {}

\* The operands of an invocation, the first one included.
Operands(a) == <<a.head>> \o a.args

SameSize(types) ==
    \A i, j \in DOMAIN types : SizeOf(types[i]) = SizeOf(types[j])

TypesOf(es) == [i \in DOMAIN es |-> TypeOf(es[i])]

PointeesOf(es) == [i \in DOMAIN es |-> Pointee(TypeOf(es[i]))]

AllPointers(es) == \A i \in DOMAIN es : IsRef(TypeOf(es[i]))

Failing == {k \in DOMAIN verdict : ~verdict[k]}

\* Every type that could be written: a type is known by the traits it
\* implements, and implements what each of them requires.
ConceivableTypes ==
    {S \in SUBSET Traits : \A t \in S : DirectSupertraits(t) \subseteq S}

\* Every type that can implement sub has to implement sup.
Requires(sub, sup) ==
    \A T \in ConceivableTypes : sub[1] \in T => sup[1] \in T

\* The property an invocation asserts, stated without the macros.
Holds(a) ==
    CASE a.macro \in SizeTypeMacros -> SameSize(Operands(a))
      [] a.macro \in SizePtrMacros ->
            AllPointers(Operands(a)) /\ SameSize(PointeesOf(Operands(a)))
      [] a.macro \in SizeValMacros -> SameSize(TypesOf(Operands(a)))
      [] a.macro = "assert_trait_sub_all" ->
            \A i \in DOMAIN a.args : Requires(a.head, a.args[i])
      [] a.macro = "assert_trait_super_all" ->
            \A i \in DOMAIN a.args : Requires(a.args[i], a.head)
      [] a.macro = "assert_trait_sub_any" ->
            \A T \in ConceivableTypes :
                a.head[1] \in T => \E i \in DOMAIN a.args : a.args[i][1] \in T

\* ------------------------------------------------------------------ claims

\* C1: assert_size_eq!(first, rest...) is accepted iff all the listed types
\* have the same size, i.e. every pair of them has; in particular a list whose
\* first two types match and whose third differs is rejected.
C1_SizeEqAcceptedIffAllEqual ==
    (Reported /\ unit[1].macro = "assert_size_eq") =>
        LET ts == Operands(unit[1])
        IN  /\ result = "ok" <=>
                  \A i, j \in DOMAIN ts : SizeOf(ts[i]) = SizeOf(ts[j])
            /\ (/\ Len(ts) >= 3
                /\ SizeOf(ts[1]) = SizeOf(ts[2])
                /\ SizeOf(ts[3]) # SizeOf(ts[1])) => result = "error"

C1_Witness ==
    /\ result = "error"
    /\ unit[1].macro = "assert_size_eq"
    /\ Len(unit[1].args) = 2
    /\ SizeOf(unit[1].head) = SizeOf(unit[1].args[1])
    /\ SizeOf(unit[1].args[2]) # SizeOf(unit[1].head)

\* C2: assert_size_eq_ptr!(x, xs...) over pointer operands is accepted iff the
\* types pointed to all have the same size: the pointee's size is compared,
\* not the pointer's, so references to [u8; 4] and to [u8; 16] are rejected.
C2_PtrComparesPointees ==
    (/\ Reported
     /\ unit[1].macro = "assert_size_eq_ptr"
     /\ AllPointers(Operands(unit[1]))) =>
        /\ result = "ok" <=> SameSize(PointeesOf(Operands(unit[1])))
        /\ (\E i \in DOMAIN unit[1].args :
               /\ TypeOf(unit[1].head) = <<"&", "[u8; 4]">>
               /\ TypeOf(unit[1].args[i]) = <<"&", "[u8; 16]">>) => result = "error"

C2_Witness ==
    /\ result = "error"
    /\ unit[1] = Invocation("assert_size_eq_ptr", <<"var", "BYTES">>,
                            << <<"var", "TABLE">> >>)
    /\ SizeOf(TypeOf(unit[1].head)) = SizeOf(TypeOf(unit[1].args[1]))

C4_NoRuntimeEffect ==
    unit[1].macro \in {"assert_size_eq_ptr", "assert_size_eq_val"} =>
        /\ reinterpreted = 0
        /\ effects = 0
        /\ moved = {}

\* C5: assert_trait_sub_all!(Sub: Super_1, ..., Super_n) is accepted iff every
\* type that can implement Sub has to implement every Super_i; one Super_i
\* that Sub does not require is enough to reject it.
C5_SubAllIffEveryImplementer ==
    (Reported /\ unit[1].macro = "assert_trait_sub_all") =>
        LET sub == unit[1].head
            supers == unit[1].args
        IN  /\ result = "ok" <=>
                  \A T \in ConceivableTypes :
                      sub[1] \in T => \A i \in DOMAIN supers : supers[i][1] \in T
            /\ (\E i \in DOMAIN supers : ~Requires(sub, supers[i])) =>
                   result = "error"

C5_Witness ==
    /\ result = "error"
    /\ unit[1].macro = "assert_trait_sub_all"
    /\ Len(unit[1].args) = 2
    /\ Requires(unit[1].head, unit[1].args[1])
    /\ ~Requires(unit[1].head, unit[1].args[2])

\* C6: assert_trait_super_all!(Super: Sub_1, ..., Sub_n) expands to exactly one
\* assert_trait_sub_all!(Sub_i: Super) per listed Sub_i, is accepted iff every
\* Sub_i requires Super, and the obligations that fail are exactly those of the
\* Sub_i that do not.
C6_SuperAllOnePerSub ==
    unit[1].macro = "assert_trait_super_all" =>
        LET super == unit[1].head
            subs == unit[1].args
            keys == {<<1, i>> : i \in DOMAIN subs}
            expandedOnce ==
                ~(TopKey(1) \in DOMAIN work
                    /\ work[TopKey(1)].macro = "assert_trait_super_all")
        IN  /\ expandedOnce =>
                /\ DOMAIN work \cup DOMAIN obls = keys
                /\ DOMAIN work \cap DOMAIN obls = {}
                /\ \A k \in DOMAIN work :
                       work[k] = Invocation("assert_trait_sub_all", subs[k[2]],
                                            <<super>>)
                /\ \A k \in DOMAIN obls :
                       /\ obls[k].bound = subs[k[2]]
                       /\ obls[k].traits = <<super>>
            /\ Reported =>
                /\ result = "ok" <=> \A i \in DOMAIN subs : Requires(subs[i], super)
                /\ Failing = {k \in keys : ~Requires(subs[k[2]], super)}

C6_Witness ==
    /\ result = "error"
    /\ unit[1] = Invocation("assert_trait_super_all", <<"Copy">>,
                            << <<"A">>, <<"C">> >>)
    /\ Failing = {<<1, 2>>}

\* C7: assert_trait_sub_any!(Sub: Alt_1, ..., Alt_n) is accepted iff every type
\* that implements Sub implements at least one Alt_i; it is rejected when Sub
\* requires none of them and accepted when it requires one and not the others.
C7_SubAnyIffSomeAlternative ==
    (Reported /\ unit[1].macro = "assert_trait_sub_any") =>
        LET sub == unit[1].head
            alts == unit[1].args
        IN  /\ result = "ok" <=>
                  \A T \in ConceivableTypes :
                      sub[1] \in T => \E i \in DOMAIN alts : alts[i][1] \in T
            /\ (\A i \in DOMAIN alts : ~Requires(sub, alts[i])) => result = "error"
            /\ (\E i \in DOMAIN alts : Requires(sub, alts[i])) => result = "ok"

C7_Witness ==
    /\ result = "ok"
    /\ unit[1].macro = "assert_trait_sub_any"
    /\ Len(unit[1].args) = 2
    /\ Requires(unit[1].head, unit[1].args[1])
    /\ ~Requires(unit[1].head, unit[1].args[2])

\* What the replacement of a deprecated macro generates from the same arguments.
ReplacementOf(m) ==
    CASE m = "assert_eq_size"     -> "assert_size_eq"
      [] m = "assert_eq_size_ptr" -> "assert_size_eq_ptr"
      [] m = "assert_eq_size_val" -> "assert_size_eq_val"

DirectObligations(m, x, xs) ==
    CASE m = "assert_size_eq"     -> assert_size_eq(x, xs)
      [] m = "assert_size_eq_ptr" -> assert_size_eq_ptr(x, xs)
      [] m = "assert_size_eq_val" ->
            assert_size_eq_ptr(assert_size_eq_val(x, xs).head,
                               assert_size_eq_val(x, xs).args)

DeprecatedMacros == {"assert_eq_size", "assert_eq_size_ptr", "assert_eq_size_val"}

\* C8: assert_eq_size!, assert_eq_size_ptr! and assert_eq_size_val! forward
\* their arguments unchanged to assert_size_eq!, assert_size_eq_ptr! and
\* assert_size_eq_val!, generate the same obligations and have the same
\* outcome; only the deprecation notice differs.
C8_AliasesSameAsReplacements ==
    IF unit[1].macro \in DeprecatedMacros
    THEN LET new == ReplacementOf(unit[1].macro)
         IN  /\ Expanded =>
                 /\ obls = Keyed(1, DirectObligations(new, unit[1].head,
                                                      unit[1].args))
                 /\ notices = {1}
             /\ Reported =>
                 (result = "ok" <=>
                     Holds(Invocation(new, unit[1].head, unit[1].args)))
    ELSE notices = {}

C8_Witness ==
    /\ result = "ok"
    /\ unit[1].macro = "assert_eq_size_val"
    /\ notices = {1}
    /\ Len(unit[1].args) = 2

Compared(a, e) ==
    IF a.macro = "assert_size_eq" THEN e ELSE Pointee(TypeOf(e))

\* C10: assert_size_eq! and assert_size_eq_ptr! generate exactly one obligation
\* per remaining operand, the i-th comparing the first operand with the i-th
\* remaining one only; the obligations that fail are exactly those of the
\* remaining operands whose size differs from the first operand's.
C10_OneObligationPerRest ==
    (/\ unit[1].macro \in {"assert_size_eq", "assert_size_eq_ptr"}
     /\ unit[1].macro = "assert_size_eq_ptr" => AllPointers(Operands(unit[1]))) =>
        LET a == unit[1]
            keys == {<<1, i>> : i \in DOMAIN a.args}
        IN  /\ Expanded =>
                /\ DOMAIN obls = keys
                /\ \A k \in keys :
                       {obls[k].from, obls[k].to} =
                           {Compared(a, a.head), Compared(a, a.args[k[2]])}
            /\ Reported =>
                Failing = {k \in keys :
                              SizeOf(Compared(a, a.args[k[2]])) #
                                  SizeOf(Compared(a, a.head))}

C10_Witness ==
    /\ Reported
    /\ unit[1].macro = "assert_size_eq"
    /\ Len(unit[1].args) = 2
    /\ SizeOf(unit[1].head) = SizeOf(unit[1].args[1])
    /\ Failing = {<<1, 2>>}

====
